---- MODULE Spec2Model ----
(***************************************************************************)
(* A model of health/handler.go: the checksHandler registry (two maps of   *)
(* named checks guarded by one sync.RWMutex, a fail-fast flag, an optional *)
(* logger) and the goroutines that call AddLiveness, AddReadiness,         *)
(* SetFailFast, GetFailFast and the two HTTP endpoints concurrently.       *)
(*                                                                         *)
(* Every goroutine is a process with a program counter.  A step of a       *)
(* process is the code between two accesses to state that other goroutines *)
(* can touch: the lock, the maps and the failFast field.                   *)
(***************************************************************************)
EXTENDS Integers, Sequences, FiniteSets, TLC

(* Bounds of the model. *)
NumProcs == 2
MaxOps == 4
MaxPathLen == 2
MaxRegs == 2

(* net/http status codes used by handle. *)
StatusOK == 200
StatusMethodNotAllowed == 405
StatusServiceUnavailable == 503

Procs == 1..NumProcs
Names == {"a", "b"}

(* A Check is func() error.  NilCheck is the nil function value; "ok"      *)
(* returns nil and "fail" returns an error.  How long a check runs is its  *)
(* own business: CheckReturn below is the step in which it returns, and    *)
(* only FairSpec makes every check return.                                 *)
NilCheck == "nil"
Checks == {NilCheck, "ok", "fail"}
NoError == "nil"

Result(check) == IF check = "fail" THEN "err" ELSE NoError

Methods == {"GET", "POST"}

(* ch.logger is nil or a logger given by WithLogger.  ctxlogrus.Extract    *)
(* never returns nil: it yields the entry attached to the request context, *)
(* or, when there is none, an entry whose logger discards its output.      *)
NilLogger == "nil"
StaticLogger == "static"
CtxLoggers == {"discard", "ctx"}

NoProc == 0

(* Path strings are sequences of characters. *)
PathChars == {"/", "h", "r"}
Paths == UNION {[1..k -> PathChars] : k \in 0..MaxPathLen}

VARIABLES
    livenessChecks,   \* ch.livenessChecks: name -> Check
    readinessChecks,  \* ch.readinessChecks: name -> Check
    failFast,         \* ch.failFast
    logger,           \* ch.logger
    wOwner,           \* ch.lock: the goroutine inside Lock()..Unlock(), or NoProc
    rcount,           \* ch.lock: read holds granted to each goroutine
    rwait,            \* ch.lock: goroutines blocked inside RLock()
    pc,               \* where each goroutine is
    op,               \* the call each goroutine is making (or made last)
    req,              \* the locals and the response of each goroutine's request;
                      \* history in it: snap, the check set of the request's
                      \* endpoint when the read lock was granted, ffSeen,
                      \* the failFast values visible during the request, and
                      \* ffStart, ch.failFast when the request began
    logs,             \* the log entries of each goroutine's current call
    lastReg,          \* history: per Add operation and name, the check given to
                      \* the last completed call, and whether that call
                      \* replaced a different check
    ops,              \* number of calls started
    livenessPath,     \* ch.livenessPath
    readinessPath,    \* ch.readinessPath
    ctor,             \* "new" before the constructor ran, then "ok", or
                      \* "panic" when it panicked; history in it: the arguments
    mux,              \* the caller's http.ServeMux: pattern -> endpoint
    regs              \* the outcomes of the Handler and RegisterHandler calls

vars == <<livenessChecks, readinessChecks, failFast, logger, wOwner, rcount,
          rwait, pc, op, req, logs, lastReg, ops,
          livenessPath, readinessPath, ctor, mux, regs>>

(* The part of the state that construction and routing are about. *)
setupVars == <<livenessPath, readinessPath, ctor, mux, regs>>

EmptyMap == [n \in {} |-> NilCheck]

NoOp == [kind |-> "none", set |-> "none", name |-> "none", check |-> NilCheck,
         val |-> FALSE, ret |-> FALSE]

NoReq == [endpoint |-> "none", method |-> "none", ctxLogger |-> NilLogger,
          logger |-> NilLogger, sets |-> <<>>, si |-> 1, visited |-> {},
          cur |-> [name |-> "none", check |-> NilCheck],
          status |-> 0, errors |-> EmptyMap, calls |-> <<>>,
          code |-> 0, writes |-> 0, body |-> "",
          snap |-> EmptyMap,
          ffSeen |-> {}, ffStart |-> FALSE]

EmptyMux == [pattern \in {} |-> "none"]

(* Variant: a prefix that is added to every path. *)
normalizePathAlways(path) == <<"/">> \o path

(* newChecksHandler, lines 43-48, for a path that has a first character:   *)
(* 'if path[0] != '/' { path = "/" + path }'.                              *)
normalizePath(path) == IF path[1] # "/" THEN <<"/">> \o path ELSE path

(* path[0] of the empty string is an index out of range: a run-time panic. *)
IndexPanics(path) == Len(path) = 0

(* Variant: a router on which a second registration replaces the first. *)
HandleFuncReplacing(m, pattern, endpoint) ==
    [mux |-> [q \in (DOMAIN m) \cup {pattern} |->
                 IF q = pattern THEN endpoint ELSE m[q]],
     panic |-> FALSE]

(* http.ServeMux.HandleFunc as net/http documents it: "If a handler        *)
(* already exists for pattern, Handle panics", and the router is left as   *)
(* it was.                                                                 *)
HandleFunc(m, pattern, endpoint) ==
    IF pattern \in DOMAIN m
    THEN [mux |-> m, panic |-> TRUE]
    ELSE [mux |-> [q \in (DOMAIN m) \cup {pattern} |->
                      IF q = pattern THEN endpoint ELSE m[q]],
          panic |-> FALSE]

(* registerMux: the readiness path first, then the liveness path; a panic  *)
(* in the first call ends it.                                              *)
registerMux(m) ==
    LET ready == HandleFunc(m, readinessPath, "readiness")
    IN  IF ready.panic THEN ready
        ELSE HandleFunc(ready.mux, livenessPath, "liveness")

(* The state of a handler built by NewChecksHandler("h", "/r") whose       *)
(* endpoints were registered once on the caller's router.                  *)
Mounted ==
    /\ ctor = [state |-> "ok", healthPath |-> <<"h">>, readyPath |-> <<"/", "r">>]
    /\ livenessPath = <<"/", "h">>
    /\ readinessPath = <<"/", "r">>
    /\ mux = [pattern \in {<<"/", "h">>, <<"/", "r">>} |->
                 IF pattern = <<"/", "h">> THEN "liveness" ELSE "readiness"]
    /\ regs = <<>>

(* The fields newChecksHandler and the options set, lines 49-55 and 62-64, *)
(* and no goroutine in a call: ch.logger is one of loggers.                *)
Registry(loggers) ==
    /\ livenessChecks = EmptyMap
    /\ readinessChecks = EmptyMap
    /\ failFast = FALSE
    /\ logger \in loggers
    /\ wOwner = NoProc
    /\ rcount = [p \in Procs |-> 0]
    /\ rwait = {}
    /\ pc = [p \in Procs |-> "idle"]
    /\ op = [p \in Procs |-> NoOp]
    /\ req = [p \in Procs |-> NoReq]
    /\ logs = [p \in Procs |-> <<>>]
    /\ lastReg = [AddLiveness |-> EmptyMap, AddReadiness |-> EmptyMap]
    /\ ops = 0

(* A constructed and mounted handler. *)
InitWith(loggers) == Mounted /\ Registry(loggers)

(* NewChecksHandler: no logger. *)
Init == InitWith({NilLogger})

(* NewChecksHandlerWithOptions, with or without WithLogger. *)
InitLog == InitWith({NilLogger, StaticLogger})


(***************************************************************************)
(* Helpers                                                                 *)
(***************************************************************************)

(* Variant: an insert that keeps the entry a name already has. *)
PutIfAbsent(m, name, check) ==
    [n \in (DOMAIN m) \cup {name} |-> IF n \in DOMAIN m THEN m[n] ELSE check]

(* Variant: an insert that drops the other entries. *)
PutAlone(m, name, check) == [n \in {name} |-> check]

(* m[name] = check on a Go map: insert or overwrite. *)
Put(m, name, check) ==
    [n \in (DOMAIN m) \cup {name} |-> IF n = name THEN check ELSE m[n]]

Map(set) == IF set = "liveness" THEN livenessChecks ELSE readinessChecks

(* sync.RWMutex.  Lock() first excludes other writers and announces itself *)
(* (wOwner), then waits until the readers that hold the lock have left;    *)
(* RLock() blocks while a writer is announced or holds the lock; Unlock()  *)
(* admits every reader that blocked meanwhile.                             *)
ActiveReaders == {q \in Procs : rcount[q] > 0}

(* Variant: a writer that does not wait for the readers. *)
WriterMayEnterAtOnce(readers) == TRUE

WriterMayEnter(readers) == readers = {}

(* Variant: a reader that does not wait for the writer. *)
ReaderMayEnterAtOnce(w) == TRUE

ReaderMayEnter(w) == w = NoProc

(* Variant: an Unlock that leaves the blocked readers blocked. *)
UnlockWithoutWakeup ==
    /\ wOwner' = NoProc
    /\ UNCHANGED <<rcount, rwait>>

Unlock ==
    /\ wOwner' = NoProc
    /\ rcount' = [q \in Procs |-> IF q \in rwait THEN rcount[q] + 1 ELSE rcount[q]]
    /\ rwait' = {}

(* Variant: a return path that leaves the read hold in place. *)
RUnlockMissing(p) == UNCHANGED <<rcount, wOwner, rwait>>

(* ch.lock.RUnlock(), deferred at line 186. *)
RUnlock(p) ==
    /\ rcount' = [rcount EXCEPT ![p] = @ - 1]
    /\ UNCHANGED <<wOwner, rwait>>

(* checkLogger: the second result. *)
checkLogger(entry) == entry # NilLogger /\ entry # "discard"

(* Variant: the static logger is preferred. *)
ResolveLoggerStaticFirst(static, ctx) ==
    IF static # NilLogger \/ ~checkLogger(ctx) THEN static ELSE ctx

(* handle, lines 165-169: the logger of this request. *)
ResolveLogger(static, ctx) == IF checkLogger(ctx) THEN ctx ELSE static

(* "if logger != nil { logger...Warn/Error(msg) }" *)
LogTo(entries, lg, level, msg) ==
    IF lg # NilLogger
    THEN Append(entries, [sink |-> lg, level |-> level, msg |-> msg])
    ELSE entries

(* Variant: no method is refused. *)
MethodAllowedAny(method) == TRUE

(* r.Method != http.MethodGet, negated. *)
MethodAllowed(method) == method = "GET"

(* Variant: a failure that does not change the status. *)
StatusAfterUnchanged(status, err) == status

(* Lines 193-201: the aggregate status after a check returned err. *)
StatusAfter(status, err) ==
    IF err # NoError THEN StatusServiceUnavailable ELSE status

(* Variants: a loop that stops at every failure, and one that never does. *)
StopOnFailureAlways(ff) == TRUE

StopOnFailureNever(ff) == FALSE

(* "if ch.failFast" after a failure, given the value read. *)
StopOnFailure(ff) == ff

(* Variant: the status is written a second time. *)
WriteHeaderTwice(r, status) ==
    [r EXCEPT !.code = IF r.writes = 0 THEN status ELSE @, !.writes = @ + 2]

(* http.ResponseWriter.WriteHeader: the first call fixes the status. *)
WriteHeader(r, status) ==
    [r EXCEPT !.code = IF r.writes = 0 THEN status ELSE @, !.writes = @ + 1]

(* Variant: a loop that calls a nil entry like any other. *)
SkippedNever(check) == FALSE

(* "if check == nil { continue }", lines 190-192. *)
Skipped(check) == check = NilCheck

(* A goroutine that is inside the GET branch of handle. *)
InRequest(q) == pc[q] \in {"rlock_wait", "loop", "in_check", "read_ff"}

(* Holds the lock in shared mode and is evaluating a check set. *)
Evaluating(q) == pc[q] \in {"loop", "in_check", "read_ff"}

(* Variant: the flag as it was when the request of p began. *)
FailFastAtStart(p) == {req[p].ffStart}

(* ch.failFast is read and written without synchronisation.  A read that   *)
(* is concurrent with a SetFailFast whose write has not landed may see the *)
(* stored value or the one being written.                                  *)
FailFastVisible(p) ==
    {failFast} \cup {op[q].val : q \in {r \in Procs \ {p} : pc[r] = "setff"}}

StartCall(p) ==
    /\ pc[p] = "idle"
    /\ ops < MaxOps
    /\ ops' = ops + 1

lockVars == <<wOwner, rcount, rwait>>
mapVars == <<livenessChecks, readinessChecks, lastReg>>

(***************************************************************************)
(* AddLiveness / AddReadiness                                              *)
(***************************************************************************)

(* ch.lock.Lock(): take the writer slot, which blocks while another writer *)
(* has it; then proceed at once if no reader holds the lock, otherwise     *)
(* wait for the readers to leave.                                          *)
Lock(p) ==
    /\ IF wOwner = NoProc
       THEN /\ wOwner' = p
            /\ pc' = [pc EXCEPT ![p] = IF WriterMayEnter(ActiveReaders)
                                       THEN "write" ELSE "lock_wait"]
       ELSE /\ pc' = [pc EXCEPT ![p] = "lock"]
            /\ UNCHANGED wOwner
    /\ UNCHANGED <<rcount, rwait>>

(* The call, up to and including ch.lock.Lock(). *)
Add(p, kind, set, name, check) ==
    /\ StartCall(p)
    /\ op' = [op EXCEPT ![p] = [NoOp EXCEPT !.kind = kind, !.set = set,
                                            !.name = name, !.check = check]]
    /\ req' = [req EXCEPT ![p] = NoReq]
    /\ logs' = [logs EXCEPT ![p] = <<>>]
    /\ Lock(p)
    /\ UNCHANGED <<mapVars, failFast, logger>>

(* Variant: AddLiveness writing the readiness mapping. *)
AddLivenessIntoReadiness(p, name, check) ==
    Add(p, "AddLiveness", "readiness", name, check)

AddLiveness(p, name, check) == Add(p, "AddLiveness", "liveness", name, check)

AddReadiness(p, name, check) == Add(p, "AddReadiness", "readiness", name, check)

(* Lock() in a goroutine that found the writer slot taken. *)
LockRetry(p) ==
    /\ pc[p] = "lock"
    /\ wOwner = NoProc
    /\ Lock(p)
    /\ UNCHANGED <<mapVars, failFast, logger, op, req, logs, ops>>

(* Lock() returns in a writer that waited for the readers. *)
LockWake(p) ==
    /\ pc[p] = "lock_wait"
    /\ WriterMayEnter(ActiveReaders)
    /\ pc' = [pc EXCEPT ![p] = "write"]
    /\ UNCHANGED <<mapVars, failFast, logger, lockVars, op, req, logs, ops>>

(* The body of Add under the lock: the log entry, the map write, and the   *)
(* deferred Unlock.                                                        *)
AddWrite(p) ==
    /\ pc[p] = "write"
    /\ logs' = [logs EXCEPT ![p] = LogTo(@, logger, "warn", "adding liveness check")]
    /\ IF op[p].set = "liveness"
       THEN /\ livenessChecks' = Put(livenessChecks, op[p].name, op[p].check)
            /\ UNCHANGED readinessChecks
       ELSE /\ readinessChecks' = Put(readinessChecks, op[p].name, op[p].check)
            /\ UNCHANGED livenessChecks
    /\ lastReg' = [lastReg EXCEPT ![op[p].kind] =
                     [n \in (DOMAIN @) \cup {op[p].name} |->
                        IF n # op[p].name THEN @[n]
                        ELSE [check |-> op[p].check,
                              over |-> /\ n \in DOMAIN @
                                       /\ @[n].check # op[p].check]]]
    /\ Unlock
    /\ pc' = [pc EXCEPT ![p] = "idle"]
    /\ op' = [op EXCEPT ![p] = NoOp]
    /\ UNCHANGED <<failFast, logger, req, ops>>

(***************************************************************************)
(* SetFailFast / GetFailFast                                               *)
(***************************************************************************)

SetFailFast(p, v) ==
    /\ StartCall(p)
    /\ pc' = [pc EXCEPT ![p] = "setff"]
    /\ op' = [op EXCEPT ![p] = [NoOp EXCEPT !.kind = "SetFailFast", !.val = v]]
    /\ req' = [q \in Procs |->
                 IF q = p THEN NoReq
                 ELSE IF InRequest(q) THEN [req[q] EXCEPT !.ffSeen = @ \cup {v}]
                 ELSE req[q]]
    /\ logs' = [logs EXCEPT ![p] = <<>>]
    /\ UNCHANGED <<mapVars, failFast, logger, lockVars>>

(* ch.failFast = failFast *)
SetFailFastWrite(p) ==
    /\ pc[p] = "setff"
    /\ failFast' = op[p].val
    /\ pc' = [pc EXCEPT ![p] = "idle"]
    /\ op' = [op EXCEPT ![p] = NoOp]
    /\ UNCHANGED <<mapVars, logger, lockVars, req, logs, ops>>

GetFailFast(p) ==
    /\ StartCall(p)
    /\ pc' = [pc EXCEPT ![p] = "getff"]
    /\ op' = [op EXCEPT ![p] = [NoOp EXCEPT !.kind = "GetFailFast"]]
    /\ req' = [req EXCEPT ![p] = NoReq]
    /\ logs' = [logs EXCEPT ![p] = <<>>]
    /\ UNCHANGED <<mapVars, failFast, logger, lockVars>>

(* return ch.failFast *)
GetFailFastRead(p) ==
    /\ pc[p] = "getff"
    /\ \E v \in FailFastVisible(p) :
          op' = [op EXCEPT ![p].ret = v]
    /\ pc' = [pc EXCEPT ![p] = "idle"]
    /\ UNCHANGED <<mapVars, failFast, logger, lockVars, req, logs, ops>>

(***************************************************************************)
(* handle, behind healthEndpoint and readyEndpoint                         *)
(***************************************************************************)

(* ch.lock.RLock(): enter unless a writer is announced; otherwise block.   *)
RLock(p) ==
    /\ IF ReaderMayEnter(wOwner)
       THEN /\ rcount' = [rcount EXCEPT ![p] = @ + 1]
            /\ pc' = [pc EXCEPT ![p] = "loop"]
            /\ UNCHANGED rwait
       ELSE /\ rwait' = rwait \cup {p}
            /\ pc' = [pc EXCEPT ![p] = "rlock_wait"]
            /\ UNCHANGED rcount
    /\ UNCHANGED wOwner

(* Lines 165-186: resolve the logger; refuse a method other than GET with  *)
(* http.Error (405 and the status text as body); otherwise set up the      *)
(* locals and call RLock.                                                  *)
handle(p, endpoint, method, ctx, checksSets) ==
    /\ StartCall(p)
    /\ op' = [op EXCEPT ![p] = [NoOp EXCEPT !.kind = "handle"]]
    /\ LET lg == ResolveLogger(logger, ctx)
           r0 == [NoReq EXCEPT !.endpoint = endpoint, !.method = method,
                               !.ctxLogger = ctx, !.logger = lg,
                               !.sets = checksSets]
       IN  IF ~MethodAllowed(method)
           THEN /\ logs' = [logs EXCEPT ![p] =
                              LogTo(<<>>, lg, "warn", "received non-GET request")]
                /\ req' = [req EXCEPT ![p] =
                              [WriteHeader(r0, StatusMethodNotAllowed)
                                 EXCEPT !.body = "Method Not Allowed\n"]]
                /\ UNCHANGED <<pc, lockVars>>
           ELSE /\ logs' = [logs EXCEPT ![p] = <<>>]
                /\ req' = [req EXCEPT ![p] =
                              [r0 EXCEPT !.status = StatusOK,
                                         !.ffSeen = FailFastVisible(p),
                                         !.ffStart = failFast,
                                         !.snap = IF ReaderMayEnter(wOwner)
                                                  THEN Map(endpoint) ELSE EmptyMap]]
                /\ RLock(p)
    /\ UNCHANGED <<mapVars, failFast, logger>>

healthEndpoint(p, method, ctx) == handle(p, "liveness", method, ctx, <<"liveness">>)

readyEndpoint(p, method, ctx) == handle(p, "readiness", method, ctx, <<"readiness">>)

(* RLock() returns in a reader that Unlock() admitted. *)
RLockWake(p) ==
    /\ pc[p] = "rlock_wait"
    /\ p \notin rwait
    /\ pc' = [pc EXCEPT ![p] = "loop"]
    /\ req' = [req EXCEPT ![p].snap = Map(req[p].endpoint)]
    /\ UNCHANGED <<mapVars, failFast, logger, lockVars, op, logs, ops>>

(* Variant: the failures are serialised into the body (the code that is    *)
(* commented out at lines 214-222).                                        *)
RespondWithErrors(p) ==
    /\ req' = [req EXCEPT ![p] =
                  [WriteHeader(@, @.status) EXCEPT
                      !.body = IF req[p].errors # EmptyMap THEN "errors" ELSE @]]
    /\ RUnlock(p)
    /\ pc' = [pc EXCEPT ![p] = "idle"]

(* return from handle after rw.WriteHeader(status): the deferred RUnlock.  *)
Respond(p) ==
    /\ req' = [req EXCEPT ![p] = WriteHeader(@, @.status)]
    /\ RUnlock(p)
    /\ pc' = [pc EXCEPT ![p] = "idle"]

(* One turn of the loops of lines 188-192: the next entry of the current   *)
(* check set, in any order, or the next set; a nil check is skipped,       *)
(* another one is called.  After the last set: line 210 and the return.    *)
LoopNext(p) ==
    /\ pc[p] = "loop"
    /\ LET r == req[p]
           checks == Map(r.sets[r.si])
           rest == (DOMAIN checks) \ r.visited
       IN  IF rest = {}
           THEN IF r.si >= Len(r.sets)
                THEN Respond(p)
                ELSE /\ req' = [req EXCEPT ![p].si = @ + 1, ![p].visited = {}]
                     /\ UNCHANGED <<pc, lockVars>>
           ELSE \E name \in rest :
                   /\ IF Skipped(checks[name])
                      THEN /\ req' = [req EXCEPT ![p].visited = @ \cup {name}]
                           /\ UNCHANGED pc
                      ELSE /\ req' = [req EXCEPT
                                ![p].visited = @ \cup {name},
                                ![p].cur = [name |-> name, check |-> checks[name]],
                                ![p].calls = Append(@,
                                    [set |-> r.sets[r.si], name |-> name,
                                     check |-> checks[name]])]
                           /\ pc' = [pc EXCEPT ![p] = "in_check"]
                   /\ UNCHANGED lockVars
    /\ UNCHANGED <<mapVars, failFast, logger, op, logs, ops>>

(* Variant: the status is set inside "if logger != nil". *)
CheckReturnStatusInLog(p) ==
    /\ pc[p] = "in_check"
    /\ LET err == Result(req[p].cur.check) IN
       IF err # NoError
       THEN /\ logs' = [logs EXCEPT ![p] =
                          LogTo(@, req[p].logger, "error", "health check returned error")]
            /\ req' = [req EXCEPT
                  ![p].status = IF req[p].logger # NilLogger
                                THEN StatusAfter(@, err) ELSE @,
                  ![p].errors = Put(@, req[p].cur.name, err)]
            /\ pc' = [pc EXCEPT ![p] = "read_ff"]
       ELSE /\ pc' = [pc EXCEPT ![p] = "loop"]
            /\ UNCHANGED <<req, logs>>
    /\ UNCHANGED <<mapVars, failFast, logger, lockVars, op, ops>>

(* check() returns, lines 193-202: on an error, the log entry, status 503  *)
(* and errors[name].                                                       *)
CheckReturn(p) ==
    /\ pc[p] = "in_check"
    /\ LET err == Result(req[p].cur.check) IN
       IF err # NoError
       THEN /\ logs' = [logs EXCEPT ![p] =
                          LogTo(@, req[p].logger, "error", "health check returned error")]
            /\ req' = [req EXCEPT
                  ![p].status = StatusAfter(@, err),
                  ![p].errors = Put(@, req[p].cur.name, err)]
            /\ pc' = [pc EXCEPT ![p] = "read_ff"]
       ELSE /\ pc' = [pc EXCEPT ![p] = "loop"]
            /\ UNCHANGED <<req, logs>>
    /\ UNCHANGED <<mapVars, failFast, logger, lockVars, op, ops>>

(* Lines 203-206: read ch.failFast; when set, write the status and return. *)
ReadFailFast(p) ==
    /\ pc[p] = "read_ff"
    /\ \E ff \in FailFastVisible(p) :
          IF StopOnFailure(ff)
          THEN Respond(p)
          ELSE /\ pc' = [pc EXCEPT ![p] = "loop"]
               /\ UNCHANGED <<req, lockVars>>
    /\ UNCHANGED <<mapVars, failFast, logger, op, logs, ops>>

(***************************************************************************)
(* The system                                                              *)
(***************************************************************************)

(* A step of goroutine p; ctxs are the entries its requests may carry. *)
Step(p, ctxs) ==
    \/ \E name \in Names, check \in Checks : AddLiveness(p, name, check)
    \/ \E name \in Names, check \in Checks : AddReadiness(p, name, check)
    \/ LockRetry(p)
    \/ LockWake(p)
    \/ AddWrite(p)
    \/ \E v \in BOOLEAN : SetFailFast(p, v)
    \/ SetFailFastWrite(p)
    \/ GetFailFast(p)
    \/ GetFailFastRead(p)
    \/ \E method \in Methods, ctx \in ctxs : healthEndpoint(p, method, ctx)
    \/ \E method \in Methods, ctx \in ctxs : readyEndpoint(p, method, ctx)
    \/ RLockWake(p)
    \/ LoopNext(p)
    \/ CheckReturn(p)
    \/ ReadFailFast(p)

(* Requests without a logger in their context.  No method of the handler   *)
(* assigns its paths, and the calls do not touch the router.               *)
Next == \E p \in Procs : Step(p, {"discard"}) /\ UNCHANGED setupVars

Spec == Init /\ [][Next]_vars

(* Every logger configuration. *)
NextLog == \E p \in Procs : Step(p, CtxLoggers) /\ UNCHANGED setupVars

SpecLog == InitLog /\ [][NextLog]_vars

(* The steps of a call in progress.  The Go scheduler runs every runnable  *)
(* goroutine eventually; it does not decide when callers start new calls.  *)
Progress(p) ==
    /\ \/ LockRetry(p)
       \/ LockWake(p)
       \/ AddWrite(p)
       \/ SetFailFastWrite(p)
       \/ GetFailFastRead(p)
       \/ RLockWake(p)
       \/ LoopNext(p)
       \/ CheckReturn(p)
       \/ ReadFailFast(p)
    /\ UNCHANGED setupVars

FairSpec == Spec /\ \A p \in Procs : WF_vars(Progress(p))

(***************************************************************************)
(* Construction and mounting                                               *)
(***************************************************************************)

registryVars == <<livenessChecks, readinessChecks, failFast, logger, wOwner,
                  rcount, rwait, pc, op, req, logs, lastReg, ops>>

(* Before the constructor ran: its two arguments are any two path strings. *)
InitSetup ==
    /\ Registry({NilLogger})
    /\ ctor \in [state : {"new"}, healthPath : Paths, readyPath : Paths]
    /\ livenessPath = <<>>
    /\ readinessPath = <<>>
    /\ mux = EmptyMux
    /\ regs = <<>>

(* newChecksHandler(healthPath, readyPath), lines 42-57: healthPath[0] and *)
(* readyPath[0] are read first, then the two paths are stored.             *)
newChecksHandler ==
    /\ ctor.state = "new"
    /\ IF IndexPanics(ctor.healthPath) \/ IndexPanics(ctor.readyPath)
       THEN /\ ctor' = [ctor EXCEPT !.state = "panic"]
            /\ UNCHANGED <<livenessPath, readinessPath>>
       ELSE /\ ctor' = [ctor EXCEPT !.state = "ok"]
            /\ livenessPath' = normalizePath(ctor.healthPath)
            /\ readinessPath' = normalizePath(ctor.readyPath)
    /\ UNCHANGED <<mux, regs, registryVars>>

(* A call on the constructed handler; a panic ends the program. *)
MayRegister ==
    /\ ctor.state = "ok"
    /\ Len(regs) < MaxRegs
    /\ \A i \in 1..Len(regs) : ~regs[i].panic

(* Handler(): registerMux on a new ServeMux, which is returned. *)
Handler ==
    /\ MayRegister
    /\ LET r == registerMux(EmptyMux)
       IN  regs' = Append(regs, [call |-> "Handler", before |-> EmptyMux,
                                 after |-> r.mux, panic |-> r.panic])
    /\ UNCHANGED <<livenessPath, readinessPath, ctor, mux, registryVars>>

(* RegisterHandler(mux): registerMux on the caller's ServeMux. *)
RegisterHandler ==
    /\ MayRegister
    /\ LET r == registerMux(mux)
       IN  /\ mux' = r.mux
           /\ regs' = Append(regs, [call |-> "RegisterHandler", before |-> mux,
                                    after |-> r.mux, panic |-> r.panic])
    /\ UNCHANGED <<livenessPath, readinessPath, ctor, registryVars>>

SetupNext == newChecksHandler \/ Handler \/ RegisterHandler

SetupSpec == InitSetup /\ [][SetupNext]_vars

(***************************************************************************)
(* Vocabulary of the properties                                            *)
(***************************************************************************)

Failing(check) == Result(check) # NoError

IsGet(p) == op[p].kind = "handle" /\ req[p].method = "GET"

(* The GET of p has returned (its response is in req[p]). *)
GetDone(p) == IsGet(p) /\ pc[p] = "idle"

(* The request of p was made with another method (it returns at once). *)
NonGetDone(p) == op[p].kind = "handle" /\ req[p].method # "GET" /\ pc[p] = "idle"

(* The indices of the calls of p's request that went to entry name. *)
CallsOf(p, name) == {i \in 1..Len(req[p].calls) : req[p].calls[i].name = name}

FailingCalls(p) == {i \in 1..Len(req[p].calls) : Failing(req[p].calls[i].check)}

(* The entries of a check set that hold a check (not nil). *)
Callable(checks) == {n \in DOMAIN checks : checks[n] # NilCheck}

HasFailing(checks) == \E n \in DOMAIN checks : Failing(checks[n])

(* p is inside a check, which has not returned (yet, or ever). *)
InCheck(p) == pc[p] = "in_check"

(* The map that the last completed calls of an Add operation describe. *)
Registered(kind) == [n \in DOMAIN lastReg[kind] |-> lastReg[kind][n].check]

AddOf(endpoint) == IF endpoint = "liveness" THEN "AddLiveness" ELSE "AddReadiness"

(***************************************************************************)
(* C1                                                                      *)
(***************************************************************************)

(* C1: with fail-fast disabled throughout a GET, if the check set of its   *)
(* path holds a failing check then the GET returns 503 and has called      *)
(* every check of the set exactly once (nil entries, which hold no check,  *)
(* never), in whatever order the entries came.                             *)
C1_FullEvaluation ==
    \A p \in Procs :
        (GetDone(p) /\ req[p].ffSeen = {FALSE} /\ HasFailing(req[p].snap)) =>
            /\ req[p].code = StatusServiceUnavailable
            /\ \A n \in DOMAIN req[p].snap :
                  Cardinality(CallsOf(p, n)) =
                      IF req[p].snap[n] = NilCheck THEN 0 ELSE 1
            /\ \A i \in 1..Len(req[p].calls) :
                  /\ req[p].calls[i].name \in DOMAIN req[p].snap
                  /\ req[p].calls[i].check = req[p].snap[req[p].calls[i].name]

(* A finished GET, fail-fast off: the failing check came first and the     *)
(* other check was still called.                                           *)
C1_Witness ==
    \E p \in Procs :
        /\ GetDone(p) /\ req[p].ffSeen = {FALSE}
        /\ Len(req[p].calls) = 2
        /\ Failing(req[p].calls[1].check)
        /\ ~Failing(req[p].calls[2].check)
        /\ req[p].code = StatusServiceUnavailable

(***************************************************************************)
(* C2                                                                      *)
(***************************************************************************)

(* C2: with fail-fast enabled throughout a GET, a failing call is the last *)
(* call of the request (so at most one failing check is called and nothing *)
(* after it), the number of calls is at most the size of the set, and a    *)
(* GET that returned on a set with a failing check returned 503 after      *)
(* exactly one failing call.                                               *)
C2_FailFastStops ==
    \A p \in Procs :
        (IsGet(p) /\ req[p].ffSeen = {TRUE}) =>
            /\ Cardinality(FailingCalls(p)) <= 1
            /\ FailingCalls(p) \subseteq {Len(req[p].calls)}
            /\ (pc[p] = "loop") => FailingCalls(p) = {}
            /\ Len(req[p].calls) <= Cardinality(DOMAIN req[p].snap)
            /\ (GetDone(p) /\ HasFailing(req[p].snap)) =>
                  /\ req[p].code = StatusServiceUnavailable
                  /\ Cardinality(FailingCalls(p)) = 1

(* A finished GET, fail-fast on, on a set of two failing checks: one call. *)
C2_Witness ==
    \E p \in Procs :
        /\ GetDone(p) /\ req[p].ffSeen = {TRUE}
        /\ Cardinality({n \in DOMAIN req[p].snap : Failing(req[p].snap[n])}) = 2
        /\ Len(req[p].calls) = 1
        /\ req[p].code = StatusServiceUnavailable

(***************************************************************************)
(* C3                                                                      *)
(***************************************************************************)

(* C3: a request with a method other than GET is answered 405 whatever is  *)
(* registered and whatever the fail-fast flag; it calls no check and does  *)
(* not take the lock (it neither holds nor waits for it).                  *)
C3_NonGetRejected ==
    \A p \in Procs :
        (op[p].kind = "handle" /\ req[p].method # "GET") =>
            /\ pc[p] = "idle"
            /\ req[p].code = StatusMethodNotAllowed
            /\ req[p].writes = 1
            /\ req[p].calls = <<>>
            /\ rcount[p] = 0
            /\ p \notin rwait
            /\ wOwner # p

(* A POST on a path whose set holds a failing check, fail-fast set. *)
C3_Witness ==
    \E p \in Procs :
        /\ NonGetDone(p)
        /\ req[p].code = StatusMethodNotAllowed
        /\ HasFailing(Map(req[p].endpoint))
        /\ failFast

(***************************************************************************)
(* C4                                                                      *)
(***************************************************************************)

(* C4: a GET returns 200 exactly when no check it called failed, and       *)
(* otherwise 503; on an empty set and on a set without a failing check it  *)
(* returns 200, whatever the fail-fast flag.                               *)
C4_OkIffNoFailure ==
    \A p \in Procs :
        GetDone(p) =>
            /\ req[p].code \in {StatusOK, StatusServiceUnavailable}
            /\ (req[p].code = StatusOK) <=> (FailingCalls(p) = {})
            /\ ~HasFailing(req[p].snap) => req[p].code = StatusOK

(* A finished GET, fail-fast on, on a set of two succeeding checks. *)
C4_Witness ==
    \E p \in Procs :
        /\ GetDone(p) /\ req[p].ffSeen = {TRUE}
        /\ Len(req[p].calls) = 2
        /\ FailingCalls(p) = {}
        /\ req[p].code = StatusOK

(***************************************************************************)
(* C5                                                                      *)
(***************************************************************************)

(* C5: each mapping holds, for every name ever registered, exactly the     *)
(* check of the most recently completed Add call for that name, and every  *)
(* check a request calls while it evaluates is that most recently          *)
(* registered check of its name, never an earlier one.                     *)
C5_LastRegistrationWins ==
    /\ livenessChecks = Registered("AddLiveness")
    /\ readinessChecks = Registered("AddReadiness")
    /\ \A p \in Procs :
          Evaluating(p) =>
              \A i \in 1..Len(req[p].calls) :
                  LET call == req[p].calls[i]
                      reg == lastReg[AddOf(req[p].endpoint)]
                  IN  /\ call.name \in DOMAIN reg
                      /\ call.check = reg[call.name].check

(* A request is inside the check that replaced a different check of the    *)
(* same name.                                                              *)
C5_Witness ==
    \E p \in Procs :
        /\ InCheck(p)
        /\ LET reg == lastReg[AddOf(req[p].endpoint)]
           IN  /\ req[p].cur.name \in DOMAIN reg
               /\ reg[req[p].cur.name].over
               /\ reg[req[p].cur.name].check = req[p].cur.check

(***************************************************************************)
(* C6                                                                      *)
(***************************************************************************)

(* C6: the liveness mapping is what the AddLiveness calls made it and the  *)
(* readiness mapping what the AddReadiness calls made it; a GET calls only *)
(* checks of the set of its own path, as they were registered there, and   *)
(* its status is 503 exactly if that set holds a failing check.            *)
C6_SetsIndependent ==
    /\ livenessChecks = Registered("AddLiveness")
    /\ readinessChecks = Registered("AddReadiness")
    /\ \A p \in Procs :
          IsGet(p) =>
              /\ \A i \in 1..Len(req[p].calls) :
                    /\ req[p].calls[i].set = req[p].endpoint
                    /\ req[p].calls[i].name \in DOMAIN req[p].snap
                    /\ req[p].calls[i].check = req[p].snap[req[p].calls[i].name]
              /\ Evaluating(p) => req[p].snap = Registered(AddOf(req[p].endpoint))
              /\ GetDone(p) =>
                    (req[p].code = StatusServiceUnavailable <=> HasFailing(req[p].snap))

(* With a failing readiness check and no failing liveness check, a GET on  *)
(* the readiness path returned 503 and a GET on the liveness path 200.     *)
C6_Witness ==
    \E p, q \in Procs :
        /\ GetDone(p) /\ req[p].endpoint = "readiness"
        /\ req[p].code = StatusServiceUnavailable
        /\ GetDone(q) /\ req[q].endpoint = "liveness"
        /\ req[q].code = StatusOK
        /\ HasFailing(readinessChecks) /\ ~HasFailing(livenessChecks)
        /\ req[q].snap = livenessChecks /\ req[p].snap = readinessChecks

(***************************************************************************)
(* C7                                                                      *)
(***************************************************************************)

(* C7: a goroutine about to write a mapping holds the lock exclusively: no *)
(* request holds it shared and no other registration holds it; a request   *)
(* that iterates a mapping holds the lock shared, possibly together with   *)
(* other requests; and the mapping a request iterates is unchanged since   *)
(* the request got the lock.                                               *)
C7_LockDiscipline ==
    /\ \A p \in Procs :
          pc[p] = "write" =>
              /\ wOwner = p
              /\ ActiveReaders = {}
              /\ \A q \in Procs \ {p} : pc[q] # "write" /\ ~Evaluating(q)
    /\ \A p \in Procs :
          Evaluating(p) =>
              /\ rcount[p] = 1
              /\ req[p].snap = Map(req[p].endpoint)

(* Two requests evaluate at the same time, each with a shared hold. *)
C7_Witness ==
    \E p, q \in Procs :
        /\ p # q
        /\ Evaluating(p) /\ Evaluating(q)
        /\ rcount[p] = 1 /\ rcount[q] = 1

(***************************************************************************)
(* C8                                                                      *)
(***************************************************************************)

(* p is about to access ch.failFast: SetFailFast writes it, GetFailFast    *)
(* and line 203 of handle read it.  SetFailFast and GetFailFast take no    *)
(* lock, and a read lock does not order a reader with them.                *)
WritesFailFast(p) == pc[p] = "setff"

ReadsFailFast(p) == pc[p] \in {"getff", "read_ff"}

(* C8: no two goroutines are ever at conflicting accesses of a field of    *)
(* the registry that no lock orders: while one is about to write a field,  *)
(* no other is about to read or write it.                                  *)
C8_NoUnorderedAccess ==
    \A p, q \in Procs :
        (p # q /\ WritesFailFast(p)) => ~(WritesFailFast(q) \/ ReadsFailFast(q))

(***************************************************************************)
(* C9                                                                      *)
(***************************************************************************)

(* a cannot go on before some check that a request is inside returns. *)
WaitsForCheck(a) ==
    LET held == \E q \in ActiveReaders : InCheck(q) IN
    \/ pc[a] = "lock_wait" /\ held
    \/ /\ pc[a] \in {"lock", "rlock_wait"}
       /\ a \in rwait \/ pc[a] = "lock"
       /\ wOwner # NoProc /\ pc[wOwner] = "lock_wait" /\ held

(* C9 as claimed: a check that has not returned stalls only the request    *)
(* that called it: no registration and no other request waits for it.      *)
C9_OnlyItsRequestStalls == \A a \in Procs : ~WaitsForCheck(a)

(* While a registration has announced itself (it waits for the lock or     *)
(* holds it) no request gets a shared hold.                                *)
NoReaderPassesWriter ==
    (wOwner # NoProc /\ wOwner' # NoProc) =>
        \A q \in Procs : rcount'[q] <= rcount[q]

RequestHoldsLockInCheck ==
    /\ \A q \in Procs :
          InCheck(q) =>
              /\ rcount[q] = 1
              /\ \A a \in Procs : pc[a] # "write"
              /\ wOwner # NoProc => pc[wOwner] = "lock_wait"
    /\ \A a \in Procs :
          /\ (pc[a] = "rlock_wait" /\ a \in rwait) => wOwner # NoProc
          /\ pc[a] = "lock_wait" => wOwner = a

(* C9 as amended: a request holds the lock shared while it is inside a     *)
(* check, so until the check returns no registration writes (its Lock      *)
(* waits); a request waits for the lock only while a registration has      *)
(* announced itself, and then no request that arrives gets the lock.       *)
C9_CheckStallsRegistration ==
    /\ []RequestHoldsLockInCheck
    /\ [][NoReaderPassesWriter]_vars

(* A registration waits for a request that is inside a check. *)
C9_Witness ==
    \E a, q \in Procs :
        /\ InCheck(q)
        /\ pc[a] = "lock_wait"
        /\ wOwner = a

(***************************************************************************)
(* C10                                                                     *)
(***************************************************************************)

(* Nobody holds, has announced for, or waits for the lock. *)
LockFree == wOwner = NoProc /\ rwait = {} /\ \A p \in Procs : rcount[p] = 0

Quiescent == LockFree /\ \A p \in Procs : pc[p] = "idle"

(* No goroutine takes the lock while it holds it or waits for it. *)
NoReentry ==
    \A p \in Procs :
        /\ rcount[p] \in {0, 1}
        /\ ~(wOwner = p /\ (rcount[p] > 0 \/ p \in rwait))
        /\ ~(p \in rwait /\ rcount[p] > 0)

(* C10: when every check returns and every goroutine in a call keeps       *)
(* running (FairSpec), every call that was started returns, and once the   *)
(* callers start no more calls the lock stays free; no goroutine ever      *)
(* takes the lock again while it holds it.                                 *)
C10_DeadlockFree ==
    /\ []NoReentry
    /\ \A p \in Procs : (pc[p] # "idle") ~> (pc[p] = "idle")
    /\ <>[]Quiescent

(* Contention: a registration waits in Lock for a request that holds the   *)
(* lock shared, and the callers have started all their calls.              *)
C10_Witness ==
    \E a, q \in Procs :
        /\ pc[a] = "lock_wait"
        /\ Evaluating(q)
        /\ ops = MaxOps

(***************************************************************************)
(* C11.  Path normalisation at construction                                *)
(***************************************************************************)

(* What the handler is to store for the constructor argument arg. *)
StoredFor(arg, path) ==
    /\ Head(path) = "/"
    /\ Head(arg) = "/" => path = arg
    /\ Head(arg) # "/" => path = <<"/">> \o arg /\ Len(path) = Len(arg) + 1
    /\ normalizePath(path) = path

(* C11: for every pair of path strings given to the constructor,           *)
(* construction succeeds, both stored paths begin with "/": a path without *)
(* a leading "/" got exactly one prepended, a path with one is stored as   *)
(* it is; and no later call changes the stored paths.                      *)
C11_ConstructionNormalises ==
    ctor.state # "new" =>
        /\ ctor.state = "ok"
        /\ StoredFor(ctor.healthPath, livenessPath)
        /\ StoredFor(ctor.readyPath, readinessPath)

(***************************************************************************)
(* C12.  The loggers do not influence the response                         *)
(***************************************************************************)

(* The status code of a request, from its method and the check set it saw. *)
ExpectedCode(method, checks) ==
    IF method # "GET" THEN StatusMethodNotAllowed
    ELSE IF HasFailing(checks) THEN StatusServiceUnavailable
    ELSE StatusOK

(* The calls of p's request are calls of distinct entries of the set it    *)
(* saw; a failure is followed by another call only if fail-fast was seen   *)
(* off, and the request returns early only after a failure with fail-fast  *)
(* seen on.                                                                *)
CallsFromSetAndFlag(p) ==
    LET r == req[p] IN
    /\ r.method # "GET" => r.calls = <<>>
    /\ \A i \in 1..Len(r.calls) :
          /\ r.calls[i].name \in Callable(r.snap)
          /\ r.calls[i].check = r.snap[r.calls[i].name]
          /\ \A j \in 1..Len(r.calls) : r.calls[j].name = r.calls[i].name => j = i
          /\ (Failing(r.calls[i].check) /\ i < Len(r.calls)) => FALSE \in r.ffSeen
    /\ (GetDone(p) /\ Len(r.calls) < Cardinality(Callable(r.snap))) =>
          /\ TRUE \in r.ffSeen
          /\ Failing(r.calls[Len(r.calls)].check)

(* C12: in every configuration of the static logger and of the logger in   *)
(* the request context, the status code of a request is the one its method *)
(* and the check set determine, and the calls it makes are the ones the    *)
(* set, the order of iteration and the fail-fast flag determine; two       *)
(* requests on equal sets under the same flag get the same status code and *)
(* (fail-fast off) call each check the same number of times, whatever      *)
(* loggers they resolved and whatever was logged.                          *)
C12_LoggerNoInfluence ==
    /\ \A p \in Procs :
          op[p].kind = "handle" =>
              /\ pc[p] = "idle" => req[p].code = ExpectedCode(req[p].method, req[p].snap)
              /\ CallsFromSetAndFlag(p)
    /\ \A p, q \in Procs :
          (GetDone(p) /\ GetDone(q) /\ req[p].snap = req[q].snap
             /\ req[p].ffSeen = req[q].ffSeen /\ Cardinality(req[p].ffSeen) = 1) =>
              /\ req[p].code = req[q].code
              /\ FALSE \in req[p].ffSeen =>
                    \A n \in Names :
                        Cardinality(CallsOf(p, n)) = Cardinality(CallsOf(q, n))

(* Two finished GETs on the same set with a failing check: one resolved    *)
(* the logger of its context and logged the failure, the other resolved no *)
(* logger and logged nothing; both returned 503 after the same calls.      *)
C12_Witness ==
    \E p, q \in Procs :
        /\ GetDone(p) /\ GetDone(q)
        /\ req[p].snap = req[q].snap /\ HasFailing(req[p].snap)
        /\ req[p].logger = "ctx" /\ req[q].logger = NilLogger
        /\ logs[p] # <<>> /\ logs[q] = <<>>
        /\ req[p].calls = req[q].calls /\ req[p].calls # <<>>
        /\ req[p].code = StatusServiceUnavailable
        /\ req[q].code = StatusServiceUnavailable

(***************************************************************************)
(* C13.  The response body                                                 *)
(***************************************************************************)

(* C13 as stated: the body of every response that request handling writes *)
(* is empty, so that only the status code can be observed.                 *)
C13_BodyAlwaysEmpty ==
    \A p \in Procs : op[p].kind = "handle" => req[p].body = ""

(* C13, amended: the body of the response to a GET is empty at every point *)
(* of the request, whatever failures it has collected; the response to     *)
(* another method carries the status text that http.Error writes.          *)
C13_GetBodyEmpty ==
    \A p \in Procs :
        /\ IsGet(p) => req[p].body = ""
        /\ NonGetDone(p) =>
              /\ req[p].body = "Method Not Allowed\n"
              /\ req[p].errors = EmptyMap

(* A finished GET that collected a failure and answered 503 with no body. *)
C13_Witness ==
    \E p \in Procs :
        /\ GetDone(p)
        /\ req[p].errors # EmptyMap
        /\ req[p].code = StatusServiceUnavailable
        /\ req[p].body = ""

(***************************************************************************)
(* C14.  Nil entries                                                       *)
(***************************************************************************)

(* A check set without its nil entries. *)
WithoutNil(checks) == [n \in Callable(checks) |-> checks[n]]

(* C14: a GET never calls a nil entry, a nil entry never makes the status  *)
(* 503 and never enters the failure mapping; on a set of nil entries only  *)
(* the GET returns 200 without a call; and a GET answers as it would on    *)
(* the set without its nil entries, in particular when a name that held a  *)
(* failing check was registered again with nil.                            *)
C14_NilSkipped ==
    \A p \in Procs :
        IsGet(p) =>
            /\ \A i \in 1..Len(req[p].calls) :
                  /\ req[p].calls[i].check # NilCheck
                  /\ req[p].snap[req[p].calls[i].name] # NilCheck
            /\ \A n \in DOMAIN req[p].errors :
                  n \in DOMAIN req[p].snap /\ req[p].snap[n] # NilCheck
            /\ (req[p].status = StatusServiceUnavailable) =>
                  \E n \in Callable(req[p].snap) : Failing(req[p].snap[n])
            /\ (GetDone(p) /\ Callable(req[p].snap) = {}) =>
                  /\ req[p].code = StatusOK
                  /\ req[p].calls = <<>>
                  /\ req[p].errors = EmptyMap
            /\ GetDone(p) =>
                  /\ req[p].code = ExpectedCode("GET", WithoutNil(req[p].snap))
                  /\ Len(req[p].calls) <= Cardinality(DOMAIN WithoutNil(req[p].snap))

(* A GET answered 503 while a name held a failing check; the name was then *)
(* registered again with nil, and a later GET on the same path made no     *)
(* call and answered 200.                                                  *)
C14_Witness ==
    \E p, q \in Procs : \E n \in Names :
        /\ GetDone(q) /\ GetDone(p) /\ req[p].endpoint = req[q].endpoint
        /\ DOMAIN req[q].snap = {n} /\ Failing(req[q].snap[n])
        /\ req[q].code = StatusServiceUnavailable
        /\ DOMAIN req[p].snap = {n} /\ req[p].snap[n] = NilCheck
        /\ lastReg[AddOf(req[p].endpoint)][n] = [check |-> NilCheck, over |-> TRUE]
        /\ req[p].calls = <<>>
        /\ req[p].code = StatusOK

(***************************************************************************)
(* C15.  The read hold is released on every return path                    *)
(***************************************************************************)

(* RLock() has returned in p and the matching RUnlock() has not run. *)
BetweenRLockAndRUnlock(p) ==
    Evaluating(p) \/ (pc[p] = "rlock_wait" /\ p \notin rwait)

(* C15: a goroutine holds the lock in shared mode once while it is between *)
(* the RLock and the return of its GET, and not at all otherwise: the      *)
(* count of read holds is never negative, a request that returned, at the  *)
(* end of the loops or early under fail-fast, holds and awaits nothing,    *)
(* and when no call is in progress nobody holds the lock.                  *)
C15_ReadHoldReleased ==
    /\ \A p \in Procs :
          /\ rcount[p] >= 0
          /\ rcount[p] = IF BetweenRLockAndRUnlock(p) THEN 1 ELSE 0
          /\ pc[p] = "idle" => (rcount[p] = 0 /\ p \notin rwait /\ wOwner # p)
    /\ (\A p \in Procs : pc[p] = "idle") =>
          (wOwner = NoProc /\ ActiveReaders = {} /\ rwait = {})

(* A GET returned early under fail-fast, and a registration on the same    *)
(* set has completed that the GET did not see; nobody holds the lock.      *)
C15_Witness ==
    \E p \in Procs :
        /\ GetDone(p) /\ req[p].ffSeen = {TRUE}
        /\ FailingCalls(p) = {Len(req[p].calls)}
        /\ Map(req[p].endpoint) # req[p].snap
        /\ \A q \in Procs : pc[q] = "idle" /\ rcount[q] = 0
        /\ wOwner = NoProc

(***************************************************************************)
(* C16.  The logger of a request                                           *)
(***************************************************************************)

(* The failing calls of p's request that have returned. *)
ReturnedFailures(p) ==
    FailingCalls(p) \ (IF InCheck(p) THEN {Len(req[p].calls)} ELSE {})

ErrorEntries(p) == {i \in 1..Len(logs[p]) : logs[p][i].level = "error"}

(* C16: a request logs to the logger of its context when that one is       *)
(* usable (present and not discarding), whatever the static logger, and    *)
(* otherwise to the static logger; with neither it logs nothing; and each  *)
(* failing check that returned has exactly one error entry, on that        *)
(* logger.                                                                 *)
C16_SinkResolution ==
    \A p \in Procs :
        op[p].kind = "handle" =>
            /\ req[p].ctxLogger = "ctx" => req[p].logger = "ctx"
            /\ req[p].ctxLogger = "discard" => req[p].logger = logger
            /\ \A i \in 1..Len(logs[p]) : logs[p][i].sink = req[p].logger
            /\ req[p].logger = NilLogger => logs[p] = <<>>
            /\ req[p].logger # NilLogger =>
                  Cardinality(ErrorEntries(p)) = Cardinality(ReturnedFailures(p))

(* Both loggers are configured; a finished GET called two failing checks   *)
(* and left two error entries, both on the logger of its context.          *)
C16_Witness ==
    \E p \in Procs :
        /\ GetDone(p)
        /\ logger = StaticLogger /\ req[p].ctxLogger = "ctx"
        /\ Cardinality(FailingCalls(p)) = 2
        /\ Len(logs[p]) = 2
        /\ \A i \in 1..2 : logs[p][i].sink = "ctx" /\ logs[p][i].level = "error"

(***************************************************************************)
(* C17.  Registering a path twice                                          *)
(***************************************************************************)

(* C17 as stated: no Handler or RegisterHandler call fails, and after it   *)
(* each path is routed to the endpoint registered for it last (the         *)
(* liveness endpoint when the two paths are equal).                        *)
C17_LastRegistrationWins ==
    \A i \in 1..Len(regs) :
        /\ ~regs[i].panic
        /\ regs[i].after[livenessPath] = "liveness"
        /\ readinessPath # livenessPath => regs[i].after[readinessPath] = "readiness"

(* C17, amended: a Handler or RegisterHandler call panics exactly when it  *)
(* registers a path a second time, that is when the router already has one *)
(* of the two paths or the two paths are equal; a call that does not panic *)
(* routes each path to its endpoint; and a pattern the router had keeps    *)
(* the endpoint registered first (with equal paths that is the readiness   *)
(* endpoint).                                                              *)
C17_DuplicateRegistrationPanics ==
    \A i \in 1..Len(regs) :
        LET e == regs[i] IN
        /\ e.panic <=> \/ readinessPath \in DOMAIN e.before
                       \/ livenessPath \in DOMAIN e.before
                       \/ livenessPath = readinessPath
        /\ \A pattern \in DOMAIN e.before :
              pattern \in DOMAIN e.after /\ e.after[pattern] = e.before[pattern]
        /\ ~e.panic =>
              /\ e.after[livenessPath] = "liveness"
              /\ e.after[readinessPath] = "readiness"
        /\ (e.panic /\ e.before = EmptyMux) =>
              e.after = [pattern \in {readinessPath} |-> "readiness"]
        /\ e.call = "RegisterHandler" /\ i = Len(regs) => mux = e.after

(* RegisterHandler was called twice on the same router with two distinct   *)
(* paths: the second call panicked and the router is as the first left it. *)
C17_Witness ==
    /\ Len(regs) = 2
    /\ livenessPath # readinessPath
    /\ regs[1].call = "RegisterHandler" /\ ~regs[1].panic
    /\ regs[2].call = "RegisterHandler" /\ regs[2].panic
    /\ mux = regs[1].after

(***************************************************************************)
(* C18.  One status code per request                                       *)
(***************************************************************************)

StatusWrittenOnce ==
    \A p \in Procs :
        op[p].kind = "handle" =>
            /\ pc[p] # "idle" => req[p].writes = 0
            /\ pc[p] = "idle" =>
                  /\ req[p].writes = 1
                  /\ req[p].code \in {StatusMethodNotAllowed, StatusOK,
                                       StatusServiceUnavailable}
            /\ IsGet(p) =>
                  /\ req[p].status \in {StatusOK, StatusServiceUnavailable}
                  /\ pc[p] = "idle" => req[p].code = req[p].status

(* A step of a GET in progress does not take the status back from 503. *)
StatusMonotone ==
    \A p \in Procs :
        (IsGet(p) /\ pc[p] # "idle" /\ req[p].status = StatusServiceUnavailable) =>
            req'[p].status = StatusServiceUnavailable

(* C18: a request writes its status code exactly once, when it returns,    *)
(* and the code is 405, 200 or 503; during a GET the aggregate status is   *)
(* 200 or 503, it is the code written, and once 503 it stays 503.          *)
C18_StatusOnce == []StatusWrittenOnce /\ [][StatusMonotone]_vars

(* A GET in progress whose first check failed and whose second check has   *)
(* returned without error: the status is still 503 and nothing is written. *)
C18_Witness ==
    \E p \in Procs :
        /\ IsGet(p) /\ pc[p] = "loop"
        /\ Len(req[p].calls) = 2
        /\ Failing(req[p].calls[1].check) /\ ~Failing(req[p].calls[2].check)
        /\ req[p].status = StatusServiceUnavailable
        /\ req[p].writes = 0

(***************************************************************************)
(* C19.  The fail-fast flag is read at each failure                        *)
(***************************************************************************)

(* ch.failFast is v and no SetFailFast call is about to write it. *)
FlagSettled(v) == failFast = v /\ \A q \in Procs : pc[q] # "setff"

(* The step of a GET after a failure: it returns if the flag is set at     *)
(* that moment, and goes on with the loop if the flag is clear.            *)
FlagReadAtFailure ==
    \A p \in Procs :
        (pc[p] = "read_ff" /\ pc'[p] # "read_ff") =>
            /\ FlagSettled(TRUE) =>
                  /\ pc'[p] = "idle"
                  /\ req'[p].writes = 1
                  /\ req'[p].calls = req[p].calls
            /\ FlagSettled(FALSE) =>
                  /\ pc'[p] = "loop"
                  /\ req'[p].writes = 0

(* C19: a GET does not keep the value the fail-fast flag had when it       *)
(* began: after each failure it acts on the value the flag has then.  Once *)
(* SetFailFast(true) has taken effect a GET in progress returns at its     *)
(* next failure, and once SetFailFast(false) has taken effect a GET that   *)
(* began with the flag set goes on after a failure.                        *)
C19_FlagReadAtEachFailure == [][FlagReadAtFailure]_vars

(* A GET began with the flag clear on a set of two checks; the flag was    *)
(* set while it ran, and it returned after its first call, which failed.   *)
C19_Witness ==
    \E p \in Procs :
        /\ GetDone(p) /\ ~req[p].ffStart
        /\ Cardinality(Callable(req[p].snap)) = 2
        /\ Len(req[p].calls) = 1
        /\ Failing(req[p].calls[1].check)
        /\ failFast

(* A GET began with the flag set; the flag was cleared before its first    *)
(* failure, and it went on with the loop after that failure.               *)
C19_WitnessCleared ==
    \E p \in Procs :
        /\ IsGet(p) /\ pc[p] = "loop" /\ req[p].ffStart
        /\ FailingCalls(p) # {}
        /\ ~failFast

(***************************************************************************)
(* C20.  What a request leaves alone                                       *)
(***************************************************************************)

(* The keys of each mapping are the names given to the completed calls of  *)
(* its Add operation, and a GET starts from status 200 and no failure: its *)
(* failures are those of its own calls and its code is the one the set it  *)
(* saw determines.                                                         *)
RegistryAndFreshStart ==
    /\ DOMAIN livenessChecks = DOMAIN lastReg["AddLiveness"]
    /\ DOMAIN readinessChecks = DOMAIN lastReg["AddReadiness"]
    /\ \A p \in Procs :
          IsGet(p) =>
              /\ req[p].calls = <<>> =>
                    (req[p].status = StatusOK /\ req[p].errors = EmptyMap)
              /\ DOMAIN req[p].errors \subseteq
                    {req[p].calls[i].name : i \in FailingCalls(p)}
              /\ GetDone(p) => req[p].code = ExpectedCode("GET", req[p].snap)

(* The step is one of p's request: it starts it, or moves it on. *)
RequestProgress(p) ==
    /\ op'[p].kind = "handle"
    /\ \/ pc[p] = "idle" /\ ops' # ops /\ (op'[p] # op[p] \/ req'[p] # req[p])
       \/ pc'[p] # pc[p]
       \/ req'[p].visited # req[p].visited
       \/ req'[p].si # req[p].si

(* No step removes a key; a step of a request changes neither mapping,     *)
(* neither path and not the flag; and a mapping changes only in the write  *)
(* of an Add call, which leaves the entries of the other names as they     *)
(* were.                                                                   *)
RegistryFrame ==
    /\ DOMAIN livenessChecks \subseteq DOMAIN livenessChecks'
    /\ DOMAIN readinessChecks \subseteq DOMAIN readinessChecks'
    /\ \A p \in Procs :
          RequestProgress(p) =>
              UNCHANGED <<livenessChecks, readinessChecks, failFast,
                          livenessPath, readinessPath>>
    /\ \A kind \in {"AddLiveness", "AddReadiness"} :
          LET m == IF kind = "AddLiveness" THEN livenessChecks ELSE readinessChecks
              n == IF kind = "AddLiveness" THEN livenessChecks' ELSE readinessChecks'
          IN  n # m =>
                \E p \in Procs :
                    /\ op[p].kind = kind /\ pc[p] = "write" /\ pc'[p] = "idle"
                    /\ \A name \in (DOMAIN m) \ {op[p].name} : n[name] = m[name]

(* C20: each mapping's keys are exactly the names ever passed to its Add   *)
(* operation and are never removed; handling a request, GET or not, leaves *)
(* both mappings, both paths and the fail-fast flag as they were; and a    *)
(* request starts afresh, so that its outcome does not depend on the       *)
(* results of earlier requests.                                            *)
C20_RequestFrame == []RegistryAndFreshStart /\ [][RegistryFrame]_vars

(* A GET answered 503 on a failing check; the name was registered again    *)
(* with a succeeding check, and a later GET on the same path answered 200  *)
(* on a registry that is still as that GET saw it.                         *)
C20_Witness ==
    \E p, q \in Procs : \E n \in Names :
        /\ GetDone(q) /\ GetDone(p) /\ req[p].endpoint = req[q].endpoint
        /\ DOMAIN req[q].snap = {n} /\ Failing(req[q].snap[n])
        /\ req[q].code = StatusServiceUnavailable
        /\ DOMAIN req[p].snap = {n} /\ req[p].snap[n] = "ok"
        /\ Len(req[p].calls) = 1
        /\ req[p].code = StatusOK
        /\ Map(req[p].endpoint) = req[p].snap

====
